---- MODULE Spec2Model ----
(***************************************************************************)
(* A model of package orderedmap (src/orderedmap.go): the OrderedMap store *)
(* (data map, order slice, RWMutex) and the OrderedMapIterator (Loop and   *)
(* Break over two unbuffered channels).                                    *)
(*                                                                         *)
(* Keys are modelled as the integers 0..NumKeys in the order in which Go   *)
(* compares the strings they stand for; 0 is the empty string "", the zero *)
(* value that make([]string, n) fills a slice with. Slice indices in the   *)
(* arguments and results of the operations are Go's (zero based); the      *)
(* sequences of the model are one based.                                   *)
(***************************************************************************)
EXTENDS Integers, Sequences, FiniteSets, TLC

\* ------------------------------------------------------------------ bounds
NumKeys == 2
NumValues == 2
MaxLen == 2
MaxBreaks == 2

EmptyKey == 0
Keys == 1..NumKeys
Values == 1..NumValues
Positions == (0 - 1)..MaxLen

RECURSIVE SeqsUpTo(_)
SeqsUpTo(n) ==
    IF n = 0 THEN {<<>>}
    ELSE LET shorter == SeqsUpTo(n - 1)
         IN  shorter \cup {Append(s, k) : s \in {t \in shorter : Len(t) = n - 1}, k \in Keys}

OrderArgs == SeqsUpTo(MaxLen)

VARIABLES
    data,        \* OrderedMap.data: the map, a function from its keys to values
    order,       \* OrderedMap.order: the slice of keys
    lock,        \* OrderedMap.lock: "free" or "held" (by a writer)
    fault,       \* the run-time panic raised so far, "none" when there is none
    last,        \* the last call made: its arguments, result and the store before it
    returnchan,  \* OrderedMapIterator.returnchan: "open" or "closed" (unbuffered)
    breakchan,   \* OrderedMapIterator.breakchan: "open" or "closed" (unbuffered)
    ppc,         \* where the goroutine started by Loop() is
    loop_i,      \* Loop's goroutine: the loop index i
    max,         \* Loop's goroutine: the value Count() returned
    item,        \* Loop's goroutine: the Tuple it offers in its select
    cpc,         \* where the caller of Loop() and Break() is
    received,    \* the Tuples the caller has received from Loop()'s channel
    breaks,      \* the number of Break() calls made
    procs        \* the calls that run concurrently: for each goroutine its call,
                 \* where it is in it, its local variables and what it has read

iter == <<returnchan, breakchan, ppc, loop_i, max, item, cpc, received, breaks>>

Procs == {1, 2}

\* ------------------------------------------------------- the store's pieces
EmptyData == [k \in {} |-> 0]

NoCall ==
    [op |-> "none", key |-> 0, value |-> 0, position |-> 0, arg |-> <<>>,
     err |-> FALSE, ret |-> <<>>, data0 |-> EmptyData, order0 |-> <<>>]

Call(op, key, value, position, arg, err) ==
    [op |-> op, key |-> key, value |-> value, position |-> position, arg |-> arg,
     err |-> err, ret |-> <<>>, data0 |-> data, order0 |-> order]

\* A call of a read with the values it returned.
Returned(op, key, position, ret) ==
    [Call(op, key, 0, position, <<>>, FALSE) EXCEPT !.ret = ret]

\* New(): an empty map and an empty order, the lock free.
New ==
    /\ data = EmptyData
    /\ order = <<>>
    /\ lock = "free"
    /\ fault = "none"
    /\ last = NoCall

\* Iterator(): two fresh unbuffered channels; no goroutine runs before Loop().
Iterator ==
    /\ returnchan = "open"
    /\ breakchan = "open"
    /\ ppc = "idle"
    /\ loop_i = 0
    /\ max = 0
    /\ item = <<>>
    /\ cpc = "start"
    /\ received = <<>>
    /\ breaks = 0

\* m.data[key] = value
setData(d, key, value) ==
    [k \in (DOMAIN d) \cup {key} |-> IF k = key THEN value ELSE d[k]]

\* delete(m.data, key)
deleteData(d, key) ==
    [k \in (DOMAIN d) \ {key} |-> d[k]]

\* make([]string, n): n empty strings
make(n) == [i \in 1..n |-> EmptyKey]

\* copy(dst, src): the first min(len(dst), len(src)) elements of dst are overwritten
copy(dst, src) ==
    [i \in 1..Len(dst) |-> IF i <= Len(src) THEN src[i] ELSE dst[i]]

\* The key put in front of the order.
addOrderFront(o, key) == <<key>> \o o

\* Add, line 48: m.order = append(m.order, key)
addOrder(o, key) == Append(o, key)

\* A range check without the test of line 60.
insertRangeErrorUpperOnly(position, size) ==
    position >= size

\* Insert, lines 56-62: the two range checks that return an error
insertRangeError(position, size) ==
    position >= size \/ position < 0

\* Insert, lines 66-67: m.order[:position] and m.order[position:] panic when the
\* position is beyond the slice
insertPanics(o, position) ==
    position < 0 \/ position > Len(o)

\* The key put one place after the position.
insertOrderAfter(o, position, key) ==
    SubSeq(o, 1, position + 1) \o <<key>> \o SubSeq(o, position + 2, Len(o))

\* Insert, lines 66-71: pre, key, post
insertOrder(o, position, key) ==
    SubSeq(o, 1, position) \o <<key>> \o SubSeq(o, position + 1, Len(o))

\* IndexOf, lines 131-136: the loop does not stop at the first match, so the
\* index returned is that of the last occurrence, or -1
IndexOf(o, key) ==
    LET hits == {i \in 1..Len(o) : o[i] = key}
    IN  IF hits = {} THEN 0 - 1
        ELSE (CHOOSE i \in hits : \A j \in hits : j <= i) - 1

\* Delete, line 151: tmp[:idx] and tmp[idx+1:] panic when idx is -1 or idx+1 is
\* beyond the slice
deletePanics(tmp, idx) ==
    idx < 0 \/ idx + 1 > Len(tmp)

\* An append that keeps the element at idx.
deleteOrderKeepsKey(tmp, idx) ==
    SubSeq(tmp, 1, idx) \o SubSeq(tmp, idx + 1, Len(tmp))

\* Delete, line 151: append(tmp[:idx], tmp[idx+1:]...)
deleteOrder(tmp, idx) ==
    SubSeq(tmp, 1, idx) \o SubSeq(tmp, idx + 2, Len(tmp))

\* sort.Strings: insertion of each element into a sorted sequence
RECURSIVE insertSorted(_, _)
insertSorted(s, x) ==
    IF s = <<>> THEN <<x>>
    ELSE IF x <= Head(s) THEN <<x>> \o s
    ELSE <<Head(s)>> \o insertSorted(Tail(s), x)

RECURSIVE sortStrings(_)
sortStrings(s) ==
    IF s = <<>> THEN <<>> ELSE insertSorted(sortStrings(Tail(s)), Head(s))

\* A comparison that sorts only its first argument.
compareOrderSortsFirst(f, s) ==
    IF Len(f) # Len(s) THEN FALSE
    ELSE LET tmpf == sortStrings(f)
         IN  \A i \in 1..Len(s) : tmpf[i] = s[i]

\* compareOrder, lines 238-261: same length and, once sorted, the same elements
compareOrder(f, s) ==
    IF Len(f) # Len(s) THEN FALSE
    ELSE LET tmpf == sortStrings(f)
             tmps == sortStrings(s)
         IN  \A i \in 1..Len(tmps) : tmpf[i] = tmps[i]

\* Count, line 158: len(m.data)
Count(d) == Cardinality(DOMAIN d)

\* GetKey, lines 90-92: the value (0 stands for nil) and whether the map has
\* the key
getKey(d, key) ==
    IF key \in DOMAIN d THEN <<d[key], TRUE>> ELSE <<0, FALSE>>

\* GetOrder, lines 110-112: a new slice of the same length, filled by copy
getOrder(o) == copy(make(Len(o)), o)

\* GetIndex, line 100: m.order[index] panics outside the slice
getIndexPanics(o, index) ==
    index < 0 \/ index >= Len(o)

\* GetIndex, lines 100-103: the key at the index, its value (0 stands for nil)
\* and whether the map has the key
getIndex(d, o, index) ==
    LET key == o[index + 1]
    IN  IF key \in DOMAIN d THEN <<key, d[key], TRUE>> ELSE <<key, 0, FALSE>>

\* ------------------------------------------- the operations, run sequentially
\* A call that is not interleaved with any other is a function of the store:
\* st is the store before, the result the store after with the error returned.
\* A panic between Lock() and Unlock() leaves the lock held.

cur == [data |-> data, order |-> order, lock |-> lock, fault |-> fault, err |-> FALSE]

\* Add, lines 45-50
add(st, key, value) ==
    [st EXCEPT !.data = setData(st.data, key, value),
               !.order = addOrder(st.order, key)]

\* Insert, lines 55-75
insert(st, position, key, value) ==
    IF insertRangeError(position, Count(st.data))
    THEN [st EXCEPT !.err = TRUE]
    ELSE IF insertPanics(st.order, position)
    THEN [st EXCEPT !.data = setData(st.data, key, value),
                    !.fault = "slice bounds out of range",
                    !.lock = "held"]
    ELSE [st EXCEPT !.data = setData(st.data, key, value),
                    !.order = insertOrder(st.order, position, key)]

\* SetOrder, lines 118-126
setOrder(st, neworder) ==
    IF ~compareOrder(st.order, neworder)
    THEN [st EXCEPT !.err = TRUE]
    ELSE [st EXCEPT !.order = copy(st.order, neworder)]

\* Delete, lines 142-153, with the index IndexOf returned (line 143). Line 149
\* has replaced m.order by the time line 151 panics.
deleteAt(st, key, idx) ==
    IF deletePanics(st.order, idx)
    THEN [st EXCEPT !.data = deleteData(st.data, key),
                    !.order = make(Len(st.order)),
                    !.fault = "slice bounds out of range",
                    !.lock = "held"]
    ELSE [st EXCEPT !.data = deleteData(st.data, key),
                    !.order = deleteOrder(st.order, idx)]

delete(st, key) == deleteAt(st, key, IndexOf(st.order, key))

\* Lock() waits while the lock is held; Insert and SetOrder return their error
\* before they lock. Delete first calls IndexOf on a copy of the map (value
\* receiver), whose RLock() on the copied lock waits like Lock().
waitsForLock(st, r) == st.lock = "held" /\ ~r.err

Becomes(r) ==
    /\ data' = r.data
    /\ order' = r.order
    /\ lock' = r.lock
    /\ fault' = r.fault

Add ==
    \E key \in Keys, value \in Values :
        LET r == add(cur, key, value)
        IN  /\ ~waitsForLock(cur, r)
            /\ Len(order) < MaxLen
            /\ Becomes(r)
            /\ last' = Call("Add", key, value, 0, <<>>, r.err)
            /\ UNCHANGED <<iter, procs>>

Insert ==
    \E position \in Positions, key \in Keys, value \in Values :
        LET r == insert(cur, position, key, value)
        IN  /\ ~waitsForLock(cur, r)
            /\ r.err \/ Len(order) < MaxLen
            /\ Becomes(r)
            /\ last' = Call("Insert", key, value, position, <<>>, r.err)
            /\ UNCHANGED <<iter, procs>>

SetOrder ==
    \E neworder \in OrderArgs :
        LET r == setOrder(cur, neworder)
        IN  /\ ~waitsForLock(cur, r)
            /\ Becomes(r)
            /\ last' = Call("SetOrder", 0, 0, 0, neworder, r.err)
            /\ UNCHANGED <<iter, procs>>

Delete ==
    \E key \in Keys :
        LET r == delete(cur, key)
        IN  /\ ~waitsForLock(cur, r)
            /\ Becomes(r)
            /\ last' = Call("Delete", key, 0, 0, <<>>, r.err)
            /\ UNCHANGED <<iter, procs>>

\* The calls of a run that keeps to the preconditions: Add and Insert with a
\* key that is not in the map, Insert at a position from 0 to below Count(),
\* Delete of a key of the map, SetOrder with any argument.
AddNew ==
    /\ Add
    /\ last'.key \notin DOMAIN data

InsertNew ==
    /\ Insert
    /\ last'.key \notin DOMAIN data
    /\ 0 <= last'.position
    /\ last'.position < Count(data)

DeletePresent ==
    /\ Delete
    /\ last'.key \in DOMAIN data

\* GetIndex, lines 98-104. The receiver is a copy of the map, made by the call:
\* RLock() on the copy of a held lock never returns. A panic at line 100 leaves
\* only the copy read-locked.
GetIndex ==
    \E index \in Positions :
        /\ lock = "free"
        /\ IF getIndexPanics(order, index)
           THEN /\ fault' = "index out of range"
                /\ last' = Returned("GetIndex", 0, index, <<>>)
           ELSE /\ last' = Returned("GetIndex", 0, index, getIndex(data, order, index))
                /\ UNCHANGED fault
        /\ UNCHANGED <<data, order, lock, iter, procs>>

vars == <<data, order, lock, fault, last, returnchan, breakchan, ppc, loop_i, max, item,
          cpc, received, breaks, procs>>

\* No goroutine has been started.
Idle ==
    [pc |-> "idle", op |-> "none", key |-> 0, value |-> 0, position |-> 0, arg |-> <<>>,
     idx |-> 0, ret |-> <<>>, at |-> 0, mid |-> FALSE]

Init == New /\ Iterator /\ procs = [p \in Procs |-> Idle]

Next == Add \/ Insert \/ SetOrder \/ Delete \/ GetIndex

Spec == Init /\ [][Next]_vars

NextProper == AddNew \/ InsertNew \/ SetOrder \/ DeletePresent

SpecProper == Init /\ [][NextProper]_vars

\* ------------------------------------------------------------ the traversal
\* One caller makes the iterator, calls Loop() once, receives from the channel
\* Loop() returns and calls Break(); Loop()'s goroutine is the producer. A send
\* and its receive on an unbuffered channel are one step of the two parties.

\* The Tuples a traversal of an unchanged store hands over: one for each index
\* below Count() whose key is in the map (Loop, lines 204-208).
tuples(d, o) ==
    LET n == IF Count(d) <= Len(o) THEN Count(d) ELSE Len(o)
        RECURSIVE from(_)
        from(j) ==
            IF j > n THEN <<>>
            ELSE IF o[j] \in DOMAIN d THEN <<<<o[j], d[o[j]]>>>> \o from(j + 1)
            ELSE from(j + 1)
    IN  from(1)

\* Loop(), lines 202-223: starts the goroutine and returns the channel.
Loop ==
    /\ cpc = "start"
    /\ ppc = "idle"
    /\ cpc' = "range"
    /\ ppc' = "count"
    /\ last' = Call("Loop", 0, 0, 0, <<>>, FALSE)
    /\ UNCHANGED <<data, order, lock, fault, returnchan, breakchan, loop_i, max, item,
                   received, breaks, procs>>

\* Line 204: max := it.data.Count(). Count has a value receiver: it read-locks
\* its own copy of the lock, which never returns when a held lock was copied.
LoopCount ==
    /\ ppc = "count"
    /\ lock = "free"
    /\ max' = Count(data)
    /\ loop_i' = 0
    /\ ppc' = "for"
    /\ UNCHANGED <<data, order, lock, fault, last, returnchan, breakchan, item, cpc,
                   received, breaks, procs>>

\* A loop test that lets the index reach max.
LoopForInclusive ==
    /\ ppc = "for"
    /\ ppc' = IF loop_i <= max THEN "getindex" ELSE "close_return"
    /\ UNCHANGED <<data, order, lock, fault, last, returnchan, breakchan, loop_i, max,
                   item, cpc, received, breaks, procs>>

\* Line 206: i < max
LoopFor ==
    /\ ppc = "for"
    /\ ppc' = IF loop_i < max THEN "getindex" ELSE "close_return"
    /\ UNCHANGED <<data, order, lock, fault, last, returnchan, breakchan, loop_i, max,
                   item, cpc, received, breaks, procs>>

\* Lines 207-208: k, v, ok := it.data.GetIndex(i); an index outside the order
\* panics in GetIndex, a key missing from the map is skipped.
LoopGetIndex ==
    /\ ppc = "getindex"
    /\ lock = "free"
    /\ IF getIndexPanics(order, loop_i)
       THEN /\ fault' = "index out of range"
            /\ ppc' = "panicked"
            /\ UNCHANGED <<loop_i, item>>
       ELSE LET k == order[loop_i + 1]
            IN  IF k \in DOMAIN data
                THEN /\ item' = <<k, data[k]>>
                     /\ ppc' = "select"
                     /\ UNCHANGED <<loop_i, fault>>
                ELSE /\ loop_i' = loop_i + 1
                     /\ ppc' = "for"
                     /\ UNCHANGED <<item, fault>>
    /\ UNCHANGED <<data, order, lock, last, returnchan, breakchan, max, cpc, received,
                   breaks, procs>>

\* Line 210: the send on returnchan, taken by the caller's receive.
LoopSend ==
    /\ ppc = "select"
    /\ cpc = "range"
    /\ returnchan = "open"
    /\ received' = Append(received, item)
    /\ loop_i' = loop_i + 1
    /\ ppc' = "for"
    /\ UNCHANGED <<data, order, lock, fault, last, returnchan, breakchan, max, item,
                   cpc, breaks, procs>>

\* Line 211: the receive from breakchan, fed by the send of Break (line 233),
\* which returns.
LoopBreak ==
    /\ ppc = "select"
    /\ cpc = "break_send"
    /\ breakchan = "open"
    /\ ppc' = "cancel"
    /\ cpc' = "returned"
    /\ UNCHANGED <<data, order, lock, fault, last, returnchan, breakchan, loop_i, max,
                   item, received, breaks, procs>>

\* Lines 212-213 without the close: the goroutine returns on a Break and leaves
\* returnchan open.
LoopCancelNoClose ==
    /\ ppc = "cancel"
    /\ ppc' = "done"
    /\ UNCHANGED <<data, order, lock, fault, last, returnchan, breakchan, loop_i, max,
                   item, cpc, received, breaks, procs>>

\* Lines 212-213: close(it.returnchan); return
LoopCancel ==
    /\ ppc = "cancel"
    /\ returnchan' = "closed"
    /\ ppc' = "done"
    /\ UNCHANGED <<data, order, lock, fault, last, breakchan, loop_i, max, item, cpc,
                   received, breaks, procs>>

\* Line 218: close(it.returnchan)
LoopCloseReturn ==
    /\ ppc = "close_return"
    /\ returnchan' = "closed"
    /\ ppc' = "close_break"
    /\ UNCHANGED <<data, order, lock, fault, last, breakchan, loop_i, max, item, cpc,
                   received, breaks, procs>>

\* Line 219: close(it.breakchan)
LoopCloseBreak ==
    /\ ppc = "close_break"
    /\ breakchan' = "closed"
    /\ ppc' = "done"
    /\ UNCHANGED <<data, order, lock, fault, last, returnchan, loop_i, max, item, cpc,
                   received, breaks, procs>>

\* A panic in Loop's goroutine ends the program.
Running == ppc # "panicked"

\* for ... range iter.Loop(): the receive that finds the channel closed.
RangeClosed ==
    /\ Running
    /\ cpc = "range"
    /\ returnchan = "closed"
    /\ cpc' = "ended"
    /\ UNCHANGED <<data, order, lock, fault, last, returnchan, breakchan, ppc, loop_i,
                   max, item, received, breaks, procs>>

\* Break, lines 230-232: the receive case of the select is ready when breakchan
\* is closed (the caller is its only sender); otherwise the default case runs.
breakReceives(ch) == ch = "closed"

\* Break(), lines 229-232: the call and its select. The caller has stopped
\* receiving, or has seen the channel closed, or has returned from a Break().
Break ==
    /\ Running
    /\ cpc \in {"range", "ended", "returned"}
    /\ breaks < MaxBreaks
    /\ breaks' = breaks + 1
    /\ cpc' = IF breakReceives(breakchan) THEN "returned" ELSE "break_send"
    /\ UNCHANGED <<data, order, lock, fault, last, returnchan, breakchan, ppc, loop_i,
                   max, item, received, procs>>

\* Break, line 233: it.breakchan <- true panics when breakchan is closed, also
\* when it is closed while the send waits.
BreakSendClosed ==
    /\ Running
    /\ cpc = "break_send"
    /\ breakchan = "closed"
    /\ fault' = "send on closed channel"
    /\ cpc' = "panicked"
    /\ UNCHANGED <<data, order, lock, last, returnchan, breakchan, ppc, loop_i, max,
                   item, received, breaks, procs>>

Producer ==
    \/ LoopCount
    \/ LoopFor
    \/ LoopGetIndex
    \/ LoopCancel
    \/ LoopCloseReturn
    \/ LoopCloseBreak

\* The store is built by calls made before Loop() and is not changed afterwards.
NextLoop ==
    \/ (cpc = "start" /\ Add)
    \/ (cpc = "start" /\ Insert)
    \/ (cpc = "start" /\ SetOrder)
    \/ (cpc = "start" /\ Delete)
    \/ Loop
    \/ LoopCount
    \/ LoopFor
    \/ LoopGetIndex
    \/ LoopSend
    \/ LoopBreak
    \/ LoopCancel
    \/ LoopCloseReturn
    \/ LoopCloseBreak
    \/ RangeClosed
    \/ Break
    \/ BreakSendClosed

SpecLoop == Init /\ [][NextLoop]_vars

\* A goroutine that can run does run, and a send and a receive that wait for
\* each other on a channel are completed.
FairSpecLoop ==
    /\ SpecLoop
    /\ WF_vars(Producer)
    /\ WF_vars(LoopBreak)
    /\ WF_vars(BreakSendClosed)

\* A caller that ranges over the channel takes each Tuple the goroutine offers
\* and sees the close.
FairSpecDrain ==
    /\ FairSpecLoop
    /\ WF_vars(LoopSend)
    /\ WF_vars(RangeClosed)

\* The store is changed by Add and Delete calls made while the traversal runs.
\* Each call runs here as one step between two steps of the traversal.
NextLoopMut ==
    \/ (Running /\ Add)
    \/ (cpc = "start" /\ Insert)
    \/ (cpc = "start" /\ SetOrder)
    \/ (Running /\ Delete)
    \/ Loop
    \/ LoopCount
    \/ LoopFor
    \/ LoopGetIndex
    \/ LoopSend
    \/ LoopBreak
    \/ LoopCancel
    \/ LoopCloseReturn
    \/ LoopCloseBreak
    \/ RangeClosed
    \/ Break
    \/ BreakSendClosed

SpecLoopMut == Init /\ [][NextLoopMut]_vars

\* ------------------------------------------------------- concurrent calls
\* After calls made one after another, two goroutines each make one call on
\* the same map, and their steps interleave. A method with a pointer receiver
\* (Add, Insert, SetOrder, Delete) locks m.lock. A method with a value
\* receiver (GetKey, GetIndex, GetOrder, IndexOf, Count) works on a copy of the
\* struct: the same map, a copy of the slice header and a copy of the lock,
\* and it read-locks the copy. The copy of a free lock is free, so the read
\* goes on whatever a writer does; the copy of a held lock is never released,
\* so the read waits for ever. A read takes what it reads from the copied
\* slice at the copy, and reads the map in a later step.

WriteOps == {"Add", "Insert", "SetOrder", "Delete"}
ReadOps == {"Count", "GetIndex", "GetKey", "IndexOf", "GetOrder"}

call(op, key, value, position, arg) ==
    [op |-> op, key |-> key, value |-> value, position |-> position, arg |-> arg]

Calls ==
    {call("Add", k, v, 0, <<>>) : k \in Keys, v \in Values}
    \cup {call("Insert", k, v, n, <<>>) : k \in Keys, v \in Values, n \in Positions}
    \cup {call("SetOrder", 0, 0, 0, o) : o \in OrderArgs}
    \cup {call("Delete", k, 0, 0, <<>>) : k \in Keys}
    \cup {call("Count", 0, 0, 0, <<>>), call("GetOrder", 0, 0, 0, <<>>)}
    \cup {call("GetIndex", 0, 0, n, <<>>) : n \in Positions}
    \cup {call("GetKey", k, 0, 0, <<>>) : k \in Keys}
    \cup {call("IndexOf", k, 0, 0, <<>>) : k \in Keys}

\* The first step of each call.
entry(op) ==
    CASE op = "Add" -> "lock"
      [] op \in {"Insert", "SetOrder", "Delete"} -> "check"
      [] OTHER -> "copy"

started(c) ==
    [pc |-> entry(c.op), op |-> c.op, key |-> c.key, value |-> c.value,
     position |-> c.position, arg |-> c.arg, idx |-> 0, ret |-> <<>>, at |-> 0,
     mid |-> FALSE]

Sequential == \A p \in Procs : procs[p].pc = "idle"

\* go call1; go call2
Go ==
    /\ Sequential
    /\ \E c1 \in Calls, c2 \in Calls : procs' = [p \in Procs |-> started(IF p = 1 THEN c1 ELSE c2)]
    /\ last' = Call("go", 0, 0, 0, <<>>, FALSE)
    /\ UNCHANGED <<data, order, lock, fault, iter>>

\* What a writer does before it locks: Insert's range checks (lines 56-62),
\* SetOrder's compareOrder (line 119), Delete's IndexOf (line 143, on a copy
\* of the map and of its lock).
Check(p) ==
    LET c == procs[p]
    IN  /\ c.pc = "check"
        /\ procs' = [procs EXCEPT ![p] =
              CASE c.op = "Insert" ->
                     IF insertRangeError(c.position, Count(data))
                     THEN [c EXCEPT !.pc = "done", !.ret = <<"error">>]
                     ELSE [c EXCEPT !.pc = "lock"]
                [] c.op = "SetOrder" ->
                     IF ~compareOrder(order, c.arg)
                     THEN [c EXCEPT !.pc = "done", !.ret = <<"error">>]
                     ELSE [c EXCEPT !.pc = "lock"]
                [] c.op = "Delete" ->
                     IF lock = "held"
                     THEN [c EXCEPT !.pc = "blocked"]
                     ELSE [c EXCEPT !.pc = "lock", !.idx = IndexOf(order, c.key)]]
        /\ UNCHANGED <<data, order, lock, fault, last, iter>>

\* m.lock.Lock()
Lock(p) ==
    /\ procs[p].pc = "lock"
    /\ lock = "free"
    /\ lock' = "held"
    /\ procs' = [procs EXCEPT ![p].pc = IF procs[p].op = "SetOrder" THEN "order" ELSE "data"]
    /\ UNCHANGED <<data, order, fault, last, iter>>

\* Lines 47, 65, 146: the update of the map
WriteData(p) ==
    LET c == procs[p]
    IN  /\ c.pc = "data"
        /\ data' = IF c.op = "Delete" THEN deleteData(data, c.key)
                   ELSE setData(data, c.key, c.value)
        /\ procs' = [procs EXCEPT ![p].pc = "order"]
        /\ UNCHANGED <<order, lock, fault, last, iter>>

\* Lines 48, 66-71, 123, 147-151: the update of the order
WriteOrder(p) ==
    LET c == procs[p]
        panics == \/ c.op = "Insert" /\ insertPanics(order, c.position)
                  \/ c.op = "Delete" /\ deletePanics(order, c.idx)
    IN  /\ c.pc = "order"
        /\ order' = CASE c.op = "Add" -> addOrder(order, c.key)
                      [] c.op = "Insert" ->
                           IF panics THEN order ELSE insertOrder(order, c.position, c.key)
                      [] c.op = "SetOrder" -> copy(order, c.arg)
                      [] c.op = "Delete" ->
                           IF panics THEN make(Len(order)) ELSE deleteOrder(order, c.idx)
        /\ fault' = IF panics THEN "slice bounds out of range" ELSE fault
        /\ procs' = [procs EXCEPT ![p].pc = IF panics THEN "panicked" ELSE "unlock"]
        /\ UNCHANGED <<data, lock, last, iter>>

\* m.lock.Unlock()
Unlock(p) ==
    /\ procs[p].pc = "unlock"
    /\ lock' = "free"
    /\ procs' = [procs EXCEPT ![p].pc = "done"]
    /\ UNCHANGED <<data, order, fault, last, iter>>

\* A writer has updated the map and not yet the order.
midWrite == \E q \in Procs : procs[q].op \in {"Add", "Insert", "Delete"} /\ procs[q].pc = "order"

\* The call of a method with a value receiver: the copy, the RLock() of the
\* copied lock and what the method reads from the copied slice (lines 100,
\* 109-110, 132-136).
Copy(p) ==
    LET c == procs[p]
    IN  /\ c.pc = "copy"
        /\ procs' = [procs EXCEPT ![p] =
              IF lock = "held" THEN [c EXCEPT !.pc = "blocked"]
              ELSE CASE c.op = "IndexOf" ->
                          [c EXCEPT !.pc = "done", !.ret = <<IndexOf(order, c.key)>>,
                                    !.at = Len(order), !.mid = midWrite]
                     [] c.op = "GetOrder" ->
                          [c EXCEPT !.pc = "done", !.ret = order,
                                    !.at = Len(order), !.mid = midWrite]
                     [] c.op = "GetIndex" ->
                          IF getIndexPanics(order, c.position)
                          THEN [c EXCEPT !.pc = "panicked"]
                          ELSE [c EXCEPT !.pc = "read", !.key = order[c.position + 1]]
                     [] OTHER -> [c EXCEPT !.pc = "read"]]
        /\ fault' = IF lock = "free" /\ c.op = "GetIndex" /\ getIndexPanics(order, c.position)
                    THEN "index out of range" ELSE fault
        /\ UNCHANGED <<data, order, lock, last, iter>>

\* Lines 90, 101, 158: the read of the map, which is the caller's own map.
Read(p) ==
    LET c == procs[p]
    IN  /\ c.pc = "read"
        /\ procs' = [procs EXCEPT ![p] =
              [c EXCEPT !.pc = "done",
                        !.ret = IF c.op = "Count" THEN <<Count(data)>>
                                ELSE IF c.key \in DOMAIN data THEN <<c.key, data[c.key], TRUE>>
                                ELSE <<c.key, 0, FALSE>>,
                        !.at = Len(order),
                        !.mid = midWrite]]
        /\ UNCHANGED <<data, order, lock, fault, last, iter>>

NextConc ==
    \/ (Sequential /\ Add)
    \/ (Sequential /\ Insert)
    \/ (Sequential /\ SetOrder)
    \/ (Sequential /\ Delete)
    \/ Go
    \/ \E p \in Procs : Check(p)
    \/ \E p \in Procs : Lock(p)
    \/ \E p \in Procs : WriteData(p)
    \/ \E p \in Procs : WriteOrder(p)
    \/ \E p \in Procs : Unlock(p)
    \/ \E p \in Procs : Copy(p)
    \/ \E p \in Procs : Read(p)

SpecConc == Init /\ [][NextConc]_vars

\* The same call made alone.
alone(st, c) ==
    CASE c.op = "Add" -> add(st, c.key, c.value)
      [] c.op = "Insert" -> insert(st, c.position, c.key, c.value)
      [] c.op = "SetOrder" -> setOrder(st, c.arg)
      [] c.op = "Delete" -> delete(st, c.key)
      [] OTHER -> st

\* The stores that the two calls leave when one runs after the other has
\* returned, in either order, from the store the goroutines were started on.
serialStores ==
    LET st0 == [data |-> last.data0, order |-> last.order0, lock |-> "free",
                fault |-> "none", err |-> FALSE]
        after(p, q) ==
            LET r == alone(st0, procs[p])
            IN  alone([r EXCEPT !.err = FALSE], procs[q])
    IN  {<<r.data, r.order>> : r \in {x \in {after(1, 2), after(2, 1)} : x.fault = "none"}}

\* ------------------------------------------------------ sequential claims
\* The order lists each key of the mapping exactly once and no other key.
orderListsMapping(d, o) ==
    /\ Len(o) = Count(d)
    /\ {o[i] : i \in 1..Len(o)} = DOMAIN d
    /\ \A i, j \in 1..Len(o) : o[i] = o[j] => i = j

\* C1: after any sequence of Add, Insert, Delete and SetOrder calls that have
\* all returned, Count() equals the length of the order and the order lists
\* each key of the mapping exactly once and no other key.
C1_OrderListsMapping ==
    fault = "none" => orderListsMapping(data, order)

\* C2: Add with a key already in the store overwrites the value and leaves the
\* order, and so Count() and the length of the order, as they were.
C2_AddExistingKeepsOrder ==
    (last.op = "Add" /\ last.key \in DOMAIN last.data0) =>
        /\ data = setData(last.data0, last.key, last.value)
        /\ order = last.order0
        /\ Count(data) = Count(last.data0)
        /\ Len(order) = Len(last.order0)

\* C9: Insert(Count(), k, v) with k not in the store returns no error and
\* leaves the store as Add(k, v) would.
C9_InsertAtCountIsAdd ==
    (/\ last.op = "Insert"
     /\ last.position = Count(last.data0)
     /\ last.key \notin DOMAIN last.data0) =>
        /\ ~last.err
        /\ fault = "none"
        /\ data = setData(last.data0, last.key, last.value)
        /\ order = addOrder(last.order0, last.key)

\* C11: GetIndex with an index below 0 or not below the size returns found =
\* false without a fault and leaves the store unchanged.
C11_GetIndexOutOfRange ==
    (/\ last.op = "GetIndex"
     /\ (last.position < 0 \/ last.position >= Count(last.data0))) =>
        /\ fault = "none"
        /\ last.ret # <<>>
        /\ last.ret[3] = FALSE
        /\ data = last.data0
        /\ order = last.order0

\* The sequence lists every key of the set exactly once.
isPermutationOf(o, keys) ==
    /\ Len(o) = Cardinality(keys)
    /\ {o[n] : n \in 1..Len(o)} = keys

\* C12: SetOrder with a sequence that is not a permutation of the store's
\* current keys returns an error and leaves the order and the mapping as they
\* were.
C12_SetOrderRejectsNonPermutation ==
    (/\ last.op = "SetOrder"
     /\ ~isPermutationOf(last.arg, DOMAIN last.data0)) =>
        /\ last.err
        /\ order = last.order0
        /\ data = last.data0

\* C13: SetOrder with a permutation of the store's current keys returns no
\* error; afterwards the order equals the argument element for element and the
\* mapping is unchanged.
C13_SetOrderAppliesPermutation ==
    (/\ last.op = "SetOrder"
     /\ isPermutationOf(last.arg, DOMAIN last.data0)) =>
        /\ ~last.err
        /\ order = last.arg
        /\ data = last.data0

C15_InsertOutOfRangeRejected ==
    (/\ last.op = "Insert"
     /\ (last.position < 0 \/ last.position > Count(last.data0))) =>
        /\ last.err
        /\ data = last.data0
        /\ order = last.order0

\* Insert has been refused on a store with a key, for a position above the size.
C15_Witness ==
    /\ last.op = "Insert"
    /\ Count(last.data0) >= 1
    /\ last.position > Count(last.data0)
    /\ last.err
    /\ fault = "none"

\* The mapping is the earlier one with the key mapped to the value and one
\* more key.
mapsNewKey(d, d0, key, value) ==
    /\ DOMAIN d = DOMAIN d0 \cup {key}
    /\ d[key] = value
    /\ \A k \in DOMAIN d0 : d[k] = d0[k]
    /\ Count(d) = Count(d0) + 1

\* C17: Add with a key that is not in the store puts the key at the last
\* position of the order, keeps the position of every key already there, maps
\* the key to the value and raises Count() by one.
C17_AddNewKeyAppends ==
    (/\ last.op = "Add"
     /\ last.key \notin DOMAIN last.data0) =>
        /\ Len(order) = Len(last.order0) + 1
        /\ order[Len(order)] = last.key
        /\ \A n \in 1..Len(last.order0) : order[n] = last.order0[n]
        /\ mapsNewKey(data, last.data0, last.key, last.value)

\* Add has put a new key behind a key that sorts after it: the order is that of
\* the calls.
C17_Witness ==
    /\ last.op = "Add"
    /\ orderListsMapping(last.data0, last.order0)
    /\ last.order0 = <<2>>
    /\ last.key = 1
    /\ order = <<2, 1>>
    /\ Count(data) = 2

RECURSIVE without(_, _)
without(o, key) ==
    IF o = <<>> THEN <<>>
    ELSE IF Head(o) = key THEN without(Tail(o), key)
    ELSE <<Head(o)>> \o without(Tail(o), key)

\* C19: Delete with a key that is in the store removes the key from the mapping
\* and from the order: the key is no longer found, Count() is one less, and the
\* other keys keep their relative order and their values.
C19_DeleteRemovesKey ==
    (/\ last.op = "Delete"
     /\ last.key \in DOMAIN last.data0) =>
        /\ last.key \notin DOMAIN data
        /\ Count(data) = Count(last.data0) - 1
        /\ \A k \in DOMAIN data : data[k] = last.data0[k]
        /\ \A n \in 1..Len(order) : order[n] # last.key
        /\ order = without(last.order0, last.key)

\* C20: every operation that takes the lock releases it before it ends, on the
\* normal, the error and the fault path, so that after any operation has ended
\* the lock is free for the next one.
C20_LockReleasedOnEveryPath ==
    last.op # "none" => lock = "free"

\* C21: in every state of a sequential run, for each index below Count(),
\* GetIndex returns found = true with the key GetOrder() has at that index and
\* the value GetKey returns for it, and IndexOf of that key is the index;
\* IndexOf of a key that is not in the store is -1.
C21_PositionAndKeyAgree ==
    lock = "free" =>
        /\ \A index \in 0..(Count(data) - 1) :
               /\ ~getIndexPanics(order, index)
               /\ LET r == getIndex(data, order, index)
                  IN  /\ r[3]
                      /\ r[1] = getOrder(order)[index + 1]
                      /\ r[2] = getKey(data, r[1])[1]
                      /\ IndexOf(order, r[1]) = index
        /\ \A key \in Keys \ DOMAIN data : IndexOf(order, key) = 0 - 1

\* C22: in a sequential run in which Add and Insert are called only with keys
\* that are not in the store, Insert only with 0 <= position < size and Delete
\* only with keys of the store, the order is always as long as the mapping has
\* keys and lists each key of the mapping exactly once.
C22_ProperRunsKeepOrderAndMapping ==
    /\ Len(order) = Cardinality(DOMAIN data)
    /\ \A key \in DOMAIN data :
           Cardinality({n \in 1..Len(order) : order[n] = key}) = 1

\* Delete has taken one of two keys out of a store that Insert and SetOrder
\* have worked on before.
C22_Witness ==
    /\ last.op = "Delete"
    /\ Len(last.order0) = 2
    /\ last.order0[1] > last.order0[2]
    /\ Len(order) = 1
    /\ Count(data) = 1
    /\ order[1] \in DOMAIN data

\* C10: Delete with a key that is not in the store returns without a fault
\* and leaves the mapping and the order unchanged.
C10_DeleteAbsentNoOp ==
    (last.op = "Delete" /\ last.key \notin DOMAIN last.data0) =>
        /\ fault = "none"
        /\ data = last.data0
        /\ order = last.order0

\* ------------------------------------------------------- traversal claims
\* A Break() that waits in its send although the producer has returned without
\* closing breakchan: nothing will ever receive from breakchan.
breakBlockedForever ==
    cpc = "break_send" /\ ppc = "done" /\ breakchan = "open"

channelFault ==
    fault \in {"send on closed channel", "close of closed channel"}

\* C5: a second Break() after a first one returns without blocking and
\* without a fault.
C5_SecondBreakReturns ==
    breaks >= 2 => (~breakBlockedForever /\ ~channelFault)

\* C6: one Break(), however it is interleaved with the producer running out of
\* items, returns without blocking and without a channel fault.
C6_BreakAtExhaustionReturns ==
    breaks <= 1 => (~breakBlockedForever /\ ~channelFault)

\* The caller has received some, but not all, Tuples of the traversal and then
\* made its one Break() call.
brokeEarly ==
    /\ breaks = 1
    /\ Len(received) >= 1
    /\ Len(received) < Len(tuples(data, order))

firstBreakReturned ==
    (breaks = 1 /\ cpc = "returned") \/ breaks > 1

\* C7: when the caller has received some but not all items of a traversal of an
\* unchanged store and calls Break() once, Break() returns, the producer ends
\* and the delivery channel is closed, without a fault.
C7_BreakEndsTraversal ==
    /\ [](brokeEarly => ~channelFault /\ ppc # "panicked")
    /\ brokeEarly ~> (firstBreakReturned /\ ppc = "done" /\ returnchan = "closed")

C7_Witness ==
    /\ brokeEarly
    /\ cpc = "returned"
    /\ ppc = "done"
    /\ returnchan = "closed"
    /\ Len(received) = 1
    /\ Len(order) = 2

\* One Tuple for each entry of the store, in the order of the keys.
entries(d, o) == [n \in 1..Len(o) |-> <<o[n], d[o[n]]>>]

isPrefix(s, t) ==
    /\ Len(s) <= Len(t)
    /\ \A n \in 1..Len(s) : s[n] = t[n]

\* The caller ranges over Loop() of a store whose calls have all returned and
\* whose order lists each key once, and has not called Break().
drains ==
    /\ cpc \in {"range", "ended"}
    /\ breaks = 0
    /\ lock = "free"
    /\ orderListsMapping(data, order)

\* C16: on a store with distinct keys that is not changed during the traversal,
\* a caller that drains Loop() receives one Tuple for each entry, in the order
\* of GetOrder(), with the key and its value; then the channel is closed, the
\* producer has ended and the channel stays closed.
C16_DrainDeliversEveryEntry ==
    /\ [](drains => /\ ppc # "panicked"
                    /\ fault = "none"
                    /\ isPrefix(received, entries(data, order)))
    /\ [](drains /\ cpc = "ended" => /\ received = entries(data, order)
                                     /\ returnchan = "closed")
    /\ [](returnchan = "closed" => [](returnchan = "closed"))
    /\ (drains /\ cpc = "range") ~> ((drains /\ cpc = "ended" /\ ppc = "done") \/ breaks > 0)

\* The caller has drained a store of two keys whose order is not the sorted one
\* and the producer has ended.
C16_Witness ==
    /\ drains
    /\ cpc = "ended"
    /\ ppc = "done"
    /\ returnchan = "closed"
    /\ Len(order) = 2
    /\ order[1] > order[2]
    /\ received = entries(data, order)

\* C8: a traversal that runs while the store is changed never faults.
C8_TraversalNeverFaults ==
    ppc # "panicked" /\ fault # "index out of range"

\* ----------------------------------------------------- concurrency claims
\* C3: no read observes the store between a write's update of the mapping and
\* its update of the order, so the Count() a reader obtains is the length of
\* the order at that instant.
C3_ReadsExcludeWrites ==
    \A p \in Procs :
        (procs[p].op \in ReadOps /\ procs[p].pc = "done") => ~procs[p].mid

\* C4: when concurrent Add, Insert, SetOrder and Delete calls have returned,
\* the mapping and the order are those that the calls leave when they run one
\* after the other in some order.
C4_WritesAreSerializable ==
    (\A p \in Procs : procs[p].op \in WriteOps /\ procs[p].pc = "done") =>
        <<data, order>> \in serialStores

====
